---- MODULE Spec2Model ----
(***************************************************************************)
(* Model of the multi-agent orchestrator                                   *)
(* (src/auto_claude_trello/orchestrator.py): one parent card, its Run      *)
(* (OrchestratorState), the subtask list, the worker futures, the approval *)
(* gate, the stop channels and the persisted state document.               *)
(*                                                                         *)
(* Inputs the orchestrator only reads at fixed points (whether a future is *)
(* done and with which result, the replies of the planner, re-planner and  *)
(* reviewer workers, whether a git or Trello call fails) are drawn at the  *)
(* step that reads them.                                                   *)
(***************************************************************************)
EXTENDS Integers, Sequences, FiniteSets, TLC

(***************************************************************************)
(* Bounds of the model and program constants.                              *)
(***************************************************************************)
MaxAgents == 2          \* max_agents of this configuration (--max-agents)
AgentLimit == 2         \* ORCH_AGENT_LIMIT of this configuration
MaxCycles == 5          \* poll cycles explored for the card, over all invocations
MaxInvocations == 2     \* orchestrate() invocations explored for the card
MaxSavedSubtasks == 1   \* subtasks of the Run values that are saved and loaded
StatusEvery == 5        \* "if cycle % 5 == 0"
DefaultBridgePriority == 50   \* item.get('priority', 50)
DefaultFixPriority == 1       \* item.get('priority', 1)

(***************************************************************************)
(* TaskStatus / OrchestratorPhase values.                                  *)
(***************************************************************************)
TaskStatus == {"pending", "ready", "running", "complete", "failed",
               "blocked", "cancelled"}

OrchestratorPhase == {"planning", "executing", "merging", "reviewing",
                      "complete", "stopped", "failed"}

NoBranch == <<>>

\* SubTask(...) as built by _parse_subtasks_json, with the dataclass defaults.
\* replanned models the presence of the '_replanned' key in the subtask dict.
SubTask(id, title, deps, prio) ==
    [id |-> id, title |-> title, dependencies |-> deps, priority |-> prio,
     status |-> "pending", agent_branch |-> NoBranch, merged |-> FALSE,
     replanned |-> FALSE]

\* re.sub(r'[^a-z0-9-]', '-', st_id.lower()) on the ids of the model.
Sanitize(st_id) ==
    CASE st_id = "A" -> "a"
      [] st_id = "a.b" -> "a-b"
      [] OTHER -> st_id

\* branch_name of _start_agent: "orch/<sanitized id>-<orchestrator id>".
BranchName(st_id) == <<"orch", Sanitize(st_id)>>

(***************************************************************************)
(* Planner replies: the JSON arrays the decomposition worker may return.   *)
(***************************************************************************)
PlanChain == << SubTask("a", "A", {}, 1), SubTask("b", "B", {"A"}, 2),
                SubTask("c", "C", {"B"}, 3) >>
PlanFan == << SubTask("a", "A", {}, 1), SubTask("b", "B", {"A"}, 2),
              SubTask("c", "C", {"A"}, 2) >>
PlanSingle == << SubTask("a", "A", {}, 1) >>
PlanWide == << SubTask("p", "P", {}, 2), SubTask("q", "Q", {}, 1),
               SubTask("r", "R", {}, 1) >>
PlanCycle == << SubTask("a", "A", {"B"}, 1), SubTask("b", "B", {"A"}, 1) >>
PlanDangling == << SubTask("a", "A", {}, 1), SubTask("b", "B", {"Z"}, 2) >>
PlanDupId == << SubTask("a", "A", {"B"}, 1), SubTask("a", "B", {}, 1),
                SubTask("c", "C", {"A"}, 2) >>
PlanEmpty == << >>
\* A plan whose only subtask has the id a later fix subtask is given.
PlanHotfix == << SubTask("fix-x", "X", {}, 1) >>

Plans == {PlanChain, PlanFan, PlanSingle, PlanWide, PlanCycle, PlanDangling,
          PlanDupId, PlanEmpty, PlanHotfix}

\* Exploration bound: later invocations for the card are explored for every
\* plan but PlanWide and PlanDupId (three independent subtasks, and two
\* subtasks sharing an id), which are explored for one invocation.
ResumeExplored(doc) ==
    /\ \A i \in 1..Len(doc.subtasks) : doc.subtasks[i].id # "p"
    /\ \A i, j \in 1..Len(doc.subtasks) :
          doc.subtasks[i].id = doc.subtasks[j].id => i = j

\* Raw worker output: text that json.loads accepts as an array of subtask
\* objects (parses = TRUE, with the array it denotes) or rejects.
Garbage == [parses |-> FALSE, plan |-> << >>]
RawOutputs == {Garbage} \cup {[parses |-> TRUE, plan |-> p] : p \in Plans}

\* _parse_subtasks_json: the first output is parsed; on JSONDecodeError the
\* output of the single repair call is parsed; a second failure raises.
ParseSubtasksJson(raw, fixed) ==
    IF raw.parses THEN [raised |-> FALSE, subtasks |-> raw.plan]
    ELSE IF fixed.parses THEN [raised |-> FALSE, subtasks |-> fixed.plan]
    ELSE [raised |-> TRUE, subtasks |-> << >>]

(***************************************************************************)
(* Helpers over the subtask list (state.subtasks, a list of dicts).        *)
(***************************************************************************)
Indices(subtasks) == 1..Len(subtasks)

Min(S) == CHOOSE x \in S : \A y \in S : x <= y

\* Index of the first subtask whose id is subtask_id, 0 when there is none.
FirstWithId(subtasks, subtask_id) ==
    LET hits == {i \in Indices(subtasks) : subtasks[i].id = subtask_id}
    IN IF hits = {} THEN 0 ELSE Min(hits)

\* _update_subtask: first dict with the id gets the fields (a function from
\* field names to new values); nothing happens when no dict has the id.
UpdateSubtask(subtasks, subtask_id, kwargs) ==
    LET i == FirstWithId(subtasks, subtask_id)
    IN IF i = 0 THEN subtasks
       ELSE [subtasks EXCEPT ![i] =
                [f \in DOMAIN subtasks[i] |->
                    IF f \in DOMAIN kwargs THEN kwargs[f] ELSE subtasks[i][f]]]

\* _completed_titles
CompletedTitles(subtasks) ==
    {subtasks[i].title : i \in {j \in Indices(subtasks) :
                                    subtasks[j].status = "complete"}}

\* list.sort(key=priority): a stable sort of a list of indices.
RECURSIVE SortByPriority(_, _)
SortByPriority(subtasks, idxs) ==
    IF idxs = << >> THEN << >>
    ELSE LET positions == 1..Len(idxs)
             best == CHOOSE k \in positions :
                        \A m \in positions :
                            \/ subtasks[idxs[k]].priority < subtasks[idxs[m]].priority
                            \/ /\ subtasks[idxs[k]].priority = subtasks[idxs[m]].priority
                               /\ k <= m
             rest == SubSeq(idxs, 1, best - 1)
                     \o SubSeq(idxs, best + 1, Len(idxs))
         IN <<idxs[best]>> \o SortByPriority(subtasks, rest)

\* _ready_subtasks: pending subtasks all of whose dependency titles are
\* titles of complete subtasks, sorted by priority (stable).
IsReady(subtasks, s) ==
    /\ s.status = "pending"
    /\ \A d \in s.dependencies : d \in CompletedTitles(subtasks)

\* Variant of _ready_subtasks without the final sort: list order.
ReadyInListOrder(subtasks) ==
    SelectSeq([i \in Indices(subtasks) |-> i],
              LAMBDA i : IsReady(subtasks, subtasks[i]))

ReadySubtasks(subtasks) ==
    SortByPriority(subtasks,
                   SelectSeq([i \in Indices(subtasks) |-> i],
                             LAMBDA i : IsReady(subtasks, subtasks[i])))

\* _mark_blocked: pending/ready subtasks with failed_title among their
\* dependencies become blocked.
MarkBlocked(subtasks, failed_title) ==
    [i \in Indices(subtasks) |->
        IF /\ subtasks[i].status \in {"pending", "ready"}
           /\ failed_title \in subtasks[i].dependencies
        THEN [subtasks[i] EXCEPT !.status = "blocked"]
        ELSE subtasks[i]]

\* _all_terminal
AllTerminal(subtasks) ==
    \A i \in Indices(subtasks) :
        subtasks[i].status \in {"complete", "failed", "blocked", "cancelled"}

\* running_count of the slot-filling step.
RunningCount(subtasks) ==
    Cardinality({i \in Indices(subtasks) : subtasks[i].status = "running"})

\* Variant of available_slots that forgets the workers already running.
AvailableSlotsIgnoringRunning(subtasks) == MaxAgents

\* available_slots = self.max_agents - running_count
AvailableSlots(subtasks) == MaxAgents - RunningCount(subtasks)

\* Python's seq[:n]: the first n elements, all but the last -n when n < 0.
PySlice(seq, n) ==
    LET stop == IF n >= 0 THEN (IF n < Len(seq) THEN n ELSE Len(seq))
                ELSE (IF Len(seq) + n > 0 THEN Len(seq) + n ELSE 0)
    IN SubSeq(seq, 1, stop)

\* ready[:available_slots]
SlotsToFill(subtasks) ==
    PySlice(ReadySubtasks(subtasks), AvailableSlots(subtasks))

(***************************************************************************)
(* Comments of the parent card, newest first (GET comments).  A comment is *)
(* kept by its id and its kind; the kinds stand for the texts the code     *)
(* posts or reads.                                                         *)
(***************************************************************************)
CommentKinds == {"plan", "notice", "status", "pr", "human"}

\* self.BOT_TAG in text
HasBotTag(kind) == kind \in {"notice", "status"}

\* re.search(r'\bcontinue\b', text, re.IGNORECASE): the human reply, and the
\* notice itself ("... containing the word **continue**").
HasContinueWord(kind) == kind \in {"human", "notice"}

\* 'Agent Limit Reached' in text
HasLimitText(kind) == kind = "notice"

\* trello.add_comment: the new comment is the newest.
AddComment(cmts, kind) == <<[id |-> Len(cmts) + 1, kind |-> kind]>> \o cmts

\* The loop of _check_agent_limit that records the id of the first comment
\* holding 'Agent Limit Reached'; old_id is kept when there is none.
FindPauseComment(cmts, old_id) ==
    LET hits == {k \in 1..Len(cmts) : HasLimitText(cmts[k].kind)}
    IN IF hits = {} THEN old_id ELSE cmts[Min(hits)].id

\* _has_human_continue: scan newest first, stop at the pause comment, skip
\* bot comments, accept the first comment holding the word continue.
HasHumanContinue(cmts, pause_id) ==
    \E k \in 1..Len(cmts) :
        /\ \A j \in 1..k : cmts[j].id # pause_id
        /\ ~HasBotTag(cmts[k].kind)
        /\ HasContinueWord(cmts[k].kind)

(***************************************************************************)
(* Worker futures: self._futures, in insertion order, each the subtask id  *)
(* it was submitted for.  res[k] is what harvest finds for future k:       *)
(* "none" (not done), "ok" or "fail".                                      *)
(***************************************************************************)
FutureResults(futs) == [1..Len(futs) -> {"none", "ok", "fail"}]

\* _harvest_agents: every done future is popped and its subtask (the first
\* with the id) becomes complete or failed.
RECURSIVE HarvestFrom(_, _, _, _)
HarvestFrom(subtasks, futs, res, k) ==
    IF k > Len(futs) THEN subtasks
    ELSE IF res[k] = "none" THEN HarvestFrom(subtasks, futs, res, k + 1)
    ELSE HarvestFrom(
            UpdateSubtask(subtasks, futs[k],
                          [status |-> IF res[k] = "ok" THEN "complete"
                                      ELSE "failed"]),
            futs, res, k + 1)

HarvestAgents(subtasks, futs, res) == HarvestFrom(subtasks, futs, res, 1)

\* self._futures after the harvest: the futures that were not done.
RemainingFutures(futs, res) ==
    LET idx == SelectSeq([i \in 1..Len(futs) |-> i],
                         LAMBDA i : res[i] = "none")
    IN [j \in 1..Len(idx) |-> futs[idx[j]]]

(***************************************************************************)
(* Status comments.                                                        *)
(***************************************************************************)
\* _status_comment builds SubTask(**s) for every subtask dict: a dict that
\* carries the '_replanned' key is rejected by the dataclass constructor
\* (TypeError), before any field of the state is changed.
StatusCommentRaises(st) ==
    \E i \in Indices(st.subtasks) : st.subtasks[i].replanned

\* _post_status: the comment is built (status_post_count += 1) and posted.
PostStatus(st, cmts) ==
    IF StatusCommentRaises(st)
    THEN [raised |-> TRUE, state |-> st, comments |-> cmts]
    ELSE [raised |-> FALSE,
          state |-> [st EXCEPT !.status_post_count = @ + 1],
          comments |-> AddComment(cmts, "status")]

(***************************************************************************)
(* Re-planner and reviewer replies.                                        *)
(***************************************************************************)
ReplanReplies == {"agent_failed", "no_json", "bad_json", "retry", "bridge",
                  "bridge_bad_item", "cancel", "unknown_action"}

\* new_tasks of a bridge decision.
BridgeTasks == << SubTask("br", "Br", {}, DefaultBridgePriority) >>

RECURSIVE AppendAll(_, _)
AppendAll(subtasks, new) ==
    IF new = << >> THEN subtasks
    ELSE AppendAll(Append(subtasks, Head(new)), Tail(new))

\* Variant of the retry that also drops the '_replanned' key.
RetryFieldsClearingFlag == [status |-> "pending", replanned |-> FALSE]

\* The fields the retry passes to _update_subtask (description and error
\* are not kept by the model); the dict keeps its other keys.
RetryFields == [status |-> "pending"]

\* _replan_on_failure for the failed subtask dict failed_task.
ReplanOnFailure(subtasks, failed_task, reply) ==
    CASE reply \in {"agent_failed", "no_json", "bad_json"} ->
            [raised |-> FALSE,
             subtasks |-> MarkBlocked(subtasks, failed_task.title)]
      [] reply = "retry" ->
            [raised |-> FALSE,
             subtasks |-> UpdateSubtask(subtasks, failed_task.id,
                                        RetryFields)]
      [] reply = "bridge" ->
            [raised |-> FALSE,
             subtasks |-> MarkBlocked(AppendAll(subtasks, BridgeTasks),
                                      failed_task.title)]
      [] reply = "bridge_bad_item" ->       \* item['title'] raises KeyError
            [raised |-> TRUE, subtasks |-> subtasks]
      [] OTHER ->                            \* cancel, or any other action
            [raised |-> FALSE,
             subtasks |-> MarkBlocked(subtasks, failed_task.title)]

ReviewReplies == {"agent_failed", "no_json", "bad_json", "not_critical",
                  "critical_no_issues", "critical", "critical_bad_item"}

\* The fix subtasks _reassess_work builds from the issues of a verdict:
\* id "fix-<title>", no dependencies.
FixTasks == << SubTask("fix-x", "x", {}, DefaultFixPriority) >>

(***************************************************************************)
(* State.                                                                  *)
(***************************************************************************)
VARIABLES
    pc,                \* position of orchestrate()
    cycle,             \* the local cycle counter of the scheduling loop
    state,             \* the in-memory OrchestratorState
    disk,              \* the state document <state dir>/<card id>.json
    futures,           \* self._futures
    stop_requested,    \* self._stop_requested
    paused,            \* self._paused
    pause_comment_id,  \* self._pause_comment_id (0 for None)
    card_on_list,      \* the parent card is on the orchestrator list
    comments,          \* comments of the parent card, newest first
    fill_queue,        \* ready[:available_slots] still to be started
    pr_url,            \* _create_pr returned a URL
    invocations,       \* orchestrate() calls made for the card
    review_calls,      \* review worker calls made for the Run
    stop_seen,         \* the stop check of this invocation returned True
    polls,             \* poll cycles run for the card, over all invocations
    exit,              \* how the latest ended orchestrate() call ended
    plan_result,       \* what planning produced for the Run
    executor,          \* self._executor: "none", "open" or "shut"
    repo               \* the repository: the subtask branches, and those of
                       \* them that carry a commit the parent branch lacks

vars == <<pc, cycle, state, disk, futures, stop_requested, paused,
          pause_comment_id, card_on_list, comments, fill_queue, pr_url,
          invocations, review_calls, stop_seen, polls, exit, plan_result,
          executor, repo>>

\* OrchestratorState(...) as constructed by orchestrate() for a new card.
NewRun == [phase |-> "planning", subtasks |-> << >>,
           total_agents_spawned |-> 0, status_post_count |-> 0]

(***************************************************************************)
(* The state document: json.dump(asdict(state)) and json.load.  A JSON     *)
(* value is a record [t, v] of its type and content; an object is a        *)
(* function from its keys to JSON values.                                  *)
(***************************************************************************)
JString(x) == [t |-> "string", v |-> x]
JNumber(n) == [t |-> "number", v |-> n]
JBool(b) == [t |-> "bool", v |-> b]
JNull == [t |-> "null", v |-> "null"]

\* The fields of the SubTask dataclass that the model carries.
SubTaskFields == {"id", "title", "dependencies", "priority", "status",
                  "agent_branch", "merged"}

\* The JSON object of a subtask dict: the dataclass fields and, when the
\* re-plan step has set it, the key '_replanned'.
DumpSubtask(s) ==
    [k \in SubTaskFields \cup (IF s.replanned THEN {"_replanned"} ELSE {}) |->
        CASE k = "id" -> JString(s.id)
          [] k = "title" -> JString(s.title)
          [] k = "dependencies" ->
                [t |-> "array", v |-> {JString(d) : d \in s.dependencies}]
          [] k = "priority" -> JNumber(s.priority)
          [] k = "status" -> JString(s.status)
          [] k = "agent_branch" ->
                IF s.agent_branch = NoBranch THEN JNull
                ELSE JString(s.agent_branch)
          [] k = "merged" -> JBool(s.merged)
          [] k = "_replanned" -> JBool(TRUE)]

\* json.dump(asdict(state), f)
JsonDump(st) ==
    [k \in {"phase", "subtasks", "total_agents_spawned", "status_post_count"} |->
        CASE k = "phase" -> JString(st.phase)
          [] k = "subtasks" ->
                [t |-> "array",
                 v |-> [i \in Indices(st.subtasks) |->
                           [t |-> "object", v |-> DumpSubtask(st.subtasks[i])]]]
          [] k = "total_agents_spawned" -> JNumber(st.total_agents_spawned)
          [] k = "status_post_count" -> JNumber(st.status_post_count)]

\* Variant of the loader that rebuilds each subtask from the dataclass
\* fields only.
LoadSubtaskFieldsOnly(obj) ==
    [id |-> obj["id"].v,
     title |-> obj["title"].v,
     dependencies |-> {j.v : j \in obj["dependencies"].v},
     priority |-> obj["priority"].v,
     status |-> obj["status"].v,
     agent_branch |-> IF obj["agent_branch"].t = "null" THEN NoBranch
                      ELSE obj["agent_branch"].v,
     merged |-> obj["merged"].v,
     replanned |-> FALSE]

\* A subtask dict as json.load returns it: every key of the object is kept.
LoadSubtask(obj) ==
    [id |-> obj["id"].v,
     title |-> obj["title"].v,
     dependencies |-> {j.v : j \in obj["dependencies"].v},
     priority |-> obj["priority"].v,
     status |-> obj["status"].v,
     agent_branch |-> IF obj["agent_branch"].t = "null" THEN NoBranch
                      ELSE obj["agent_branch"].v,
     merged |-> obj["merged"].v,
     replanned |-> "_replanned" \in DOMAIN obj /\ obj["_replanned"].v]

\* OrchestratorState.__dataclass_fields__, as far as the model carries them.
DataclassFields == {"phase", "subtasks", "total_agents_spawned",
                    "status_post_count"}

\* _load_state: json.load, then OrchestratorState(**data) over the keys
\* that are dataclass fields.
LoadState(doc) ==
    LET data == [k \in DOMAIN doc \cap DataclassFields |-> doc[k]]
    IN [phase |-> data["phase"].v,
        subtasks |-> [i \in DOMAIN data["subtasks"].v |->
                         LoadSubtask(data["subtasks"].v[i].v)],
        total_agents_spawned |-> data["total_agents_spawned"].v,
        status_post_count |-> data["status_post_count"].v]

\* _save_state: the document is written.  doc is the Run whose dump
\* JsonDump(doc) is the content of the file; the file is parsed when it is
\* loaded.
SaveState(st) == [exists |-> TRUE, doc |-> st, written |-> "complete"]

\* The repository before any subtask branch is created; merges are the
\* merges attempted on the parent branch, in order.
EmptyRepo == [branches |-> {}, ahead |-> {}, merges |-> << >>]

\* git.create_branch(branch_name, state.parent_branch) and create_worktree
\* in _start_agent: the branch exists, at the parent's commit when new.
CreateBranch(r, branch) == [r EXCEPT !.branches = @ \cup {branch}]

\* 'git add -A' and 'git commit' at the end of run_agent_in_worktree, for
\* the workers whose worktree holds changes.
CommitWork(r, done) == [r EXCEPT !.ahead = @ \cup done]

\* The branches of the harvested workers that committed.  Exploration bound
\* of the scheduling specification: a worker that exits with code 0 has
\* changed files, a worker that fails has timed out; every outcome of a
\* worker is followed in SpecWorker.
WorkerCommits(futs, res) ==
    {BranchName(futs[k]) : k \in {j \in 1..Len(futs) : res[j] = "ok"}}

Init ==
    /\ pc = "idle"
    /\ cycle = 0
    /\ state = NewRun
    /\ disk = [exists |-> FALSE, doc |-> NewRun, written |-> "complete"]
    /\ futures = << >>
    /\ stop_requested = FALSE
    /\ paused = FALSE
    /\ pause_comment_id = 0
    /\ card_on_list = TRUE
    /\ comments = << >>
    /\ fill_queue = << >>
    /\ pr_url = FALSE
    /\ invocations = 0
    /\ review_calls = 0
    /\ stop_seen = FALSE
    /\ polls = 0
    /\ exit = "none"
    /\ plan_result = "none"
    /\ executor = "none"
    /\ repo = EmptyRepo

\* Variant of the finally clause that leaves the pool running.
ExecutorLeftOpen == "open"

\* "finally: self._executor.shutdown(wait=True)": returns when every
\* submitted worker call has finished and the pool processes have exited.
ExecutorShutdown == "shut"

\* The finally clause of the scheduling loop runs whenever control leaves
\* the try block: on return, on an exception and on break.
Finally ==
    executor' = IF pc' \in {"returned", "merge"} THEN ExecutorShutdown
                ELSE executor

\* Worker processes of this invocation that may still be alive: the calls
\* submitted to an open pool and not harvested yet.
AliveWorkers == IF executor = "open" THEN Len(futures) ELSE 0

\* orchestrate() returns or lets an exception escape.
Return(st, dk, cmts, how) ==
    /\ state' = st
    /\ disk' = dk
    /\ comments' = cmts
    /\ pc' = "returned"
    /\ exit' = how

\* The handler "except Exception" of the scheduling loop: the phase becomes
\* failed and is saved, then the final status comment is posted; when that
\* raises again the exception leaves orchestrate().
RaiseInLoop(st, cmts) ==
    LET st1 == [st EXCEPT !.phase = "failed"]
        post == PostStatus(st1, cmts)
    IN Return(post.state, SaveState(st1), post.comments,
              IF post.raised THEN "raised" ELSE "failed")

(***************************************************************************)
(* orchestrate(): entry.  Each invocation for the card runs in a process   *)
(* of its own (--card-id), hence on a new Orchestrator instance.           *)
(***************************************************************************)
Invoke ==
    /\ pc \in {"idle", "returned"}
    /\ invocations < MaxInvocations
    /\ disk.exists => ResumeExplored(disk.doc)
    /\ invocations' = invocations + 1
    /\ cycle' = 0
    /\ futures' = << >>
    /\ stop_requested' = FALSE
    /\ paused' = FALSE
    /\ pause_comment_id' = 0
    /\ fill_queue' = << >>
    /\ pr_url' = FALSE
    /\ stop_seen' = FALSE
    /\ IF disk.exists
       THEN \* resuming: the loaded state is set to executing and saved
            /\ state' = [LoadState(JsonDump(disk.doc)) EXCEPT
                            !.phase = "executing"]
            /\ disk' = SaveState(state')
            /\ pc' = "loop_top"
       ELSE /\ state' = NewRun
            /\ disk' = SaveState(NewRun)
            /\ pc' = "planning"
    /\ UNCHANGED <<card_on_list, comments, review_calls, polls, exit,
                   plan_result>>
    /\ executor' = IF disk.exists THEN "open" ELSE "none"
    /\ UNCHANGED repo

\* Planning: _decompose_task, then the parent branch, the subtask cards and
\* the plan comment.  setup_ok is whether the git and Trello calls succeed.
Decompose ==
    /\ pc = "planning"
    /\ \E agent_ok \in BOOLEAN, raw \in RawOutputs, fixed \in RawOutputs,
          setup_ok \in BOOLEAN :
        LET parsed == ParseSubtasksJson(raw, fixed)
            st1 == [state EXCEPT !.subtasks = parsed.subtasks]
            st2 == [st1 EXCEPT !.phase = "executing"]
        IN /\ plan_result' = IF ~agent_ok THEN "worker_failed"
                             ELSE IF parsed.raised THEN "unparsable"
                             ELSE IF parsed.subtasks = << >> THEN "empty"
                             ELSE "parsed"
           /\ IF ~agent_ok \/ parsed.raised
              THEN Return(state, disk, comments, "raised")
              ELSE IF ~setup_ok
              THEN Return(st1, SaveState(st1), comments, "raised")
              ELSE /\ state' = st2
                   /\ disk' = SaveState(st2)
                   /\ comments' = AddComment(comments, "plan")
                   /\ pc' = "loop_top"
                   /\ exit' = exit
    /\ UNCHANGED <<cycle, futures, stop_requested, paused, pause_comment_id,
                   card_on_list, fill_queue, pr_url, invocations,
                   review_calls, stop_seen, polls>>
    /\ executor' = IF pc' = "loop_top" THEN "open" ELSE executor
    /\ UNCHANGED repo

(***************************************************************************)
(* Stop channels.  The flag and the card's list are read only by the stop  *)
(* check at the top of a cycle, so a signal or a card move is taken there. *)
(***************************************************************************)
\* _handle_signal
HandleSignal ==
    /\ pc = "loop_top"
    /\ ~stop_requested
    /\ stop_requested' = TRUE
    /\ UNCHANGED <<pc, cycle, state, disk, futures, paused, pause_comment_id,
                   card_on_list, comments, fill_queue, pr_url, invocations,
                   review_calls, stop_seen, exit, polls,
                   plan_result, executor, repo>>

\* A user moves the parent card off the orchestrator list while a Run is
\* scheduled, or back onto it between two invocations.
MoveCard ==
    /\ \/ pc = "loop_top" /\ card_on_list
       \/ pc = "returned" /\ ~card_on_list
    /\ card_on_list' = ~card_on_list
    /\ UNCHANGED <<pc, cycle, state, disk, futures, stop_requested, paused,
                   pause_comment_id, comments, fill_queue, pr_url,
                   invocations, review_calls, stop_seen, exit, polls,
                   plan_result, executor, repo>>

\* _check_for_stop; card_ok is whether trello.get_card answers.
CheckForStop(card_ok) ==
    stop_requested \/ (card_ok /\ ~card_on_list)

\* _handle_stop: phase stopped, saved; the in-flight futures are awaited
\* (res: what is done when the wait ends) and harvested; final status.
HandleStop(res) ==
    LET st1 == [state EXCEPT !.phase = "stopped"]
        st2 == IF futures = << >> THEN st1
               ELSE [st1 EXCEPT !.subtasks =
                        HarvestAgents(st1.subtasks, futures, res)]
        post == PostStatus(st2, comments)
    IN /\ futures' = IF futures = << >> THEN futures
                     ELSE RemainingFutures(futures, res)
       /\ repo' = CommitWork(repo, WorkerCommits(futures, res))
       /\ IF post.raised
          THEN RaiseInLoop(st2, comments)
          ELSE Return(post.state, SaveState(st2), post.comments, "stopped")

\* Top of a cycle: cycle += 1 and the stop check.
StopCheck ==
    /\ pc = "loop_top"
    /\ polls < MaxCycles
    /\ polls' = polls + 1
    /\ cycle' = cycle + 1
    /\ \E card_ok \in BOOLEAN :
        IF CheckForStop(card_ok)
        THEN /\ stop_seen' = TRUE
             /\ \E res \in FutureResults(futures) : HandleStop(res)
        ELSE /\ pc' = "harvest"
             /\ UNCHANGED <<state, disk, futures, comments, stop_seen, exit,
                            repo>>
    /\ UNCHANGED <<stop_requested, paused, pause_comment_id, card_on_list,
                   fill_queue, pr_url, invocations, review_calls,
                   plan_result>>
    /\ Finally

\* Step 2 of a cycle: harvest and save.
Harvest ==
    /\ pc = "harvest"
    /\ \E res \in FutureResults(futures) :
        /\ state' = [state EXCEPT !.subtasks =
                        HarvestAgents(state.subtasks, futures, res)]
        /\ futures' = RemainingFutures(futures, res)
        /\ repo' = CommitWork(repo, WorkerCommits(futures, res))
    /\ disk' = SaveState(state')
    /\ pc' = "replan"
    /\ UNCHANGED <<cycle, stop_requested, paused, pause_comment_id,
                   card_on_list, comments, fill_queue, pr_url, invocations,
                   review_calls, stop_seen, exit, polls,
                   plan_result>>
    /\ Finally

\* Step 3 of a cycle, one pass of the loop body per step: the first failed
\* subtask without the '_replanned' key gets the key and is re-planned.
NeedsReplan(subtasks) ==
    {i \in Indices(subtasks) :
        subtasks[i].status = "failed" /\ ~subtasks[i].replanned}

Replan ==
    /\ pc = "replan"
    /\ IF NeedsReplan(state.subtasks) = {}
       THEN /\ pc' = "terminal"
            /\ UNCHANGED <<state, disk, comments, exit>>
       ELSE \E reply \in ReplanReplies :
            LET i == Min(NeedsReplan(state.subtasks))
                flagged == [state.subtasks EXCEPT ![i].replanned = TRUE]
                out == ReplanOnFailure(flagged, flagged[i], reply)
                st1 == [state EXCEPT !.subtasks = out.subtasks]
            IN IF out.raised
                  THEN RaiseInLoop(st1, comments)
                  ELSE /\ state' = st1
                       /\ disk' = SaveState(st1)
                       /\ pc' = "replan"
                       /\ UNCHANGED <<comments, exit>>
    /\ UNCHANGED <<cycle, futures, stop_requested, paused, pause_comment_id,
                   card_on_list, fill_queue, pr_url, invocations,
                   review_calls, stop_seen, polls,
                   plan_result>>
    /\ Finally
    /\ UNCHANGED repo

\* _reassess_work after the review worker answered reply: the fix subtasks
\* are appended for a critical verdict with issues.
ReassessWork(subtasks, reply) ==
    CASE reply = "critical" ->
            [raised |-> FALSE, critical |-> TRUE,
             subtasks |-> AppendAll(subtasks, FixTasks)]
      [] reply = "critical_bad_item" ->  \* item['description'] raises KeyError
            [raised |-> TRUE, critical |-> FALSE, subtasks |-> subtasks]
      [] OTHER ->
            [raised |-> FALSE, critical |-> FALSE, subtasks |-> subtasks]

\* Step 4 of a cycle: the terminal check and, when every subtask is
\* terminal, the review; git_ok is whether fetch and worktree add succeed.
TerminalCheck ==
    /\ pc = "terminal"
    /\ IF ~AllTerminal(state.subtasks)
       THEN /\ pc' = "gate"
            /\ UNCHANGED <<state, disk, comments, exit, review_calls>>
       ELSE IF CompletedTitles(state.subtasks) = {}
       THEN /\ pc' = "merge"
            /\ UNCHANGED <<state, disk, comments, exit, review_calls>>
       ELSE \E git_ok \in BOOLEAN, reply \in ReviewReplies :
            LET out == ReassessWork(state.subtasks, reply)
                st1 == [state EXCEPT !.subtasks = out.subtasks]
                post == PostStatus(st1, comments)
            IN /\ review_calls' = IF git_ok THEN review_calls + 1
                                  ELSE review_calls
               /\ IF ~git_ok \/ out.raised
                  THEN RaiseInLoop(state, comments)
                  ELSE IF ~out.critical
                  THEN /\ pc' = "merge"
                       /\ UNCHANGED <<state, disk, comments, exit>>
                  ELSE IF post.raised
                  THEN RaiseInLoop(st1, comments)
                  ELSE /\ state' = post.state
                       /\ disk' = SaveState(post.state)
                       /\ comments' = post.comments
                       /\ pc' = "loop_top"
                       /\ exit' = exit
    /\ UNCHANGED <<cycle, futures, stop_requested, paused, pause_comment_id,
                   card_on_list, fill_queue, pr_url, invocations, stop_seen, polls,
                   plan_result>>
    /\ Finally
    /\ UNCHANGED repo

\* A human comment is on the card that is newer than every limit notice.
\* The gate accepts the newest human comment it scans, so one human comment
\* per notice stands for any number of them.
HumanRepliedSinceNotice(cmts) ==
    \E k \in 1..Len(cmts) :
        /\ cmts[k].kind = "human"
        /\ \A j \in 1..(k - 1) : cmts[j].kind # "notice"

\* A human posts a comment holding the word continue on the parent card.
\* Comments are read only by the gate, and only their order relative to the
\* limit notice matters, so the comment is taken at a gate that is paused
\* (after the notice) or about to pause (before the notice).
HumanComment ==
    /\ pc = "gate"
    /\ paused \/ state.total_agents_spawned >= AgentLimit
    /\ ~HumanRepliedSinceNotice(comments)
    /\ comments' = AddComment(comments, "human")
    /\ UNCHANGED <<pc, cycle, state, disk, futures, stop_requested, paused,
                   pause_comment_id, card_on_list, fill_queue, pr_url,
                   invocations, review_calls, stop_seen, exit, polls,
                   plan_result, executor, repo>>

\* How the Trello calls of the gate end: both answer, add_comment raises,
\* or add_comment answers and get_card_comments raises.
TrelloOutcomes == {"ok", "add_fails", "get_fails"}

\* _check_agent_limit: TRUE when no worker may be started in this cycle.
\* trello is how the Trello calls of the gate end.
CheckAgentLimit(trello) ==
    IF paused
    THEN LET approved == /\ trello # "get_fails"
                         /\ HasHumanContinue(comments, pause_comment_id)
         IN [blocked |-> ~approved,
             paused |-> ~approved,
             pause_comment_id |-> IF approved THEN 0 ELSE pause_comment_id,
             comments |-> comments]
    ELSE IF state.total_agents_spawned >= AgentLimit
    THEN LET cmts == IF trello # "add_fails"
                     THEN AddComment(comments, "notice")
                     ELSE comments
         IN [blocked |-> TRUE,
             paused |-> TRUE,
             pause_comment_id |-> IF trello = "ok"
                                  THEN FindPauseComment(cmts, pause_comment_id)
                                  ELSE pause_comment_id,
             comments |-> cmts]
    ELSE [blocked |-> FALSE, paused |-> paused,
          pause_comment_id |-> pause_comment_id, comments |-> comments]

\* Step 5 of a cycle, first half: the gate, and the slice of the ready list
\* that the slot-filling loop will start.
Gate ==
    /\ pc = "gate"
    /\ \E trello \in TrelloOutcomes :
        LET g == CheckAgentLimit(trello)
        IN /\ paused' = g.paused
           /\ pause_comment_id' = g.pause_comment_id
           /\ comments' = g.comments
           /\ IF g.blocked
              THEN pc' = "status" /\ fill_queue' = << >>
              ELSE pc' = "fill" /\ fill_queue' = SlotsToFill(state.subtasks)
    /\ UNCHANGED <<cycle, state, disk, futures, stop_requested, card_on_list,
                   pr_url, invocations, review_calls, stop_seen, exit, polls,
                   plan_result>>
    /\ Finally
    /\ UNCHANGED repo

\* _start_agent for the subtask dict s: the first subtask with its id
\* becomes running on its branch, the counter grows, a future is submitted.
StartAgent(st, s) ==
    [st EXCEPT !.subtasks = UpdateSubtask(st.subtasks, s.id,
                                [status |-> "running",
                                 agent_branch |-> BranchName(s.id)]),
               !.total_agents_spawned = @ + 1]

\* Step 5, second half: one pass of "for sd in ready[:available_slots]".
\* git_ok is whether fetch and worktree add succeed.
Fill ==
    /\ pc = "fill"
    /\ IF fill_queue = << >>
       THEN /\ pc' = "status"
            /\ UNCHANGED <<state, disk, futures, comments, fill_queue, exit,
                           repo>>
       ELSE \E git_ok \in BOOLEAN :
            LET s == state.subtasks[Head(fill_queue)]
            IN IF ~git_ok
               THEN /\ RaiseInLoop(state, comments)
                    /\ UNCHANGED <<futures, fill_queue, repo>>
               ELSE /\ state' = StartAgent(state, s)
                    /\ repo' = CreateBranch(repo, BranchName(s.id))
                    /\ disk' = SaveState(state')
                    /\ futures' = Append(futures, s.id)
                    /\ fill_queue' = Tail(fill_queue)
                    /\ UNCHANGED <<pc, comments, exit>>
    /\ UNCHANGED <<cycle, stop_requested, paused, pause_comment_id,
                   card_on_list, pr_url, invocations, review_calls,
                   stop_seen, polls,
                   plan_result>>
    /\ Finally

\* Step 6 of a cycle: the periodic status comment, then the sleep.
PeriodicStatus ==
    /\ pc = "status"
    /\ IF cycle % StatusEvery = 0
       THEN LET post == PostStatus(state, comments)
            IN IF post.raised
               THEN RaiseInLoop(state, comments)
               ELSE /\ state' = post.state
                    /\ disk' = SaveState(post.state)
                    /\ comments' = post.comments
                    /\ pc' = "loop_top"
                    /\ exit' = exit
       ELSE /\ pc' = "loop_top"
            /\ UNCHANGED <<state, disk, comments, exit>>
    /\ UNCHANGED <<cycle, futures, stop_requested, paused, pause_comment_id,
                   card_on_list, fill_queue, pr_url, invocations,
                   review_calls, stop_seen, polls,
                   plan_result>>
    /\ Finally
    /\ UNCHANGED repo

(***************************************************************************)
(* After the loop: merge, pull request, completion.                        *)
(***************************************************************************)
\* The subtasks _merge_all attempts: complete, with a branch, not merged.
MergeCandidates(subtasks) ==
    {i \in Indices(subtasks) :
        /\ subtasks[i].status = "complete"
        /\ subtasks[i].agent_branch # NoBranch
        /\ ~subtasks[i].merged}

\* Variant of _merge_all that reverts a subtask to failed when the conflict
\* resolution for its branch fails.
MergeAllRevertingUnresolved(subtasks, outcome) ==
    [i \in Indices(subtasks) |->
        IF i \in MergeCandidates(subtasks)
        THEN IF outcome[i] # "unresolved"
             THEN [subtasks[i] EXCEPT !.merged = TRUE]
             ELSE [subtasks[i] EXCEPT !.status = "failed"]
        ELSE subtasks[i]]

\* _merge_all: outcome[i] is how the merge of candidate i ends.
MergeAll(subtasks, outcome) ==
    [i \in Indices(subtasks) |->
        IF i \in MergeCandidates(subtasks) /\ outcome[i] # "unresolved"
        THEN [subtasks[i] EXCEPT !.merged = TRUE]
        ELSE subtasks[i]]

\* Variant of sorted_tasks that keeps the insertion order.
CompleteInListOrder(subtasks) ==
    SelectSeq([i \in Indices(subtasks) |-> i],
              LAMBDA i : subtasks[i].status = "complete")

\* sorted_tasks of _merge_all: the complete subtasks, sorted by priority.
SortedTasks(subtasks) ==
    SortByPriority(subtasks,
                   SelectSeq([i \in Indices(subtasks) |-> i],
                             LAMBDA i : subtasks[i].status = "complete"))

\* The loop of _merge_all over sorted_tasks: a subtask without a branch or
\* already merged is skipped, the branches of the others are merged in
\* turn; each merge is recorded with the position of its subtask and
\* whether it was completed (cleanly or by the conflict resolution).
MergeAttempts(subtasks, outcome) ==
    LET tried == SelectSeq(SortedTasks(subtasks),
                           LAMBDA i : i \in MergeCandidates(subtasks))
    IN [k \in 1..Len(tried) |->
           [index |-> tried[k], branch |-> subtasks[tried[k]].agent_branch,
            merged |-> outcome[tried[k]] # "unresolved"]]

\* Variant of the merge phase that leaves the phase as it is.
MergeKeepingPhase ==
    /\ pc = "merge"
    /\ \E wt_ok \in BOOLEAN,
          outcome \in [MergeCandidates(state.subtasks) ->
                          {"clean", "resolved", "unresolved"}] :
        IF ~wt_ok
        THEN state' = state /\ disk' = SaveState(state) /\ repo' = repo
        ELSE /\ state' = [state EXCEPT !.subtasks =
                             MergeAll(state.subtasks, outcome)]
             /\ disk' = SaveState(state')
             /\ repo' = [repo EXCEPT !.merges =
                            @ \o MergeAttempts(state.subtasks, outcome)]
    /\ pc' = "pr"
    /\ UNCHANGED <<cycle, futures, stop_requested, paused, pause_comment_id,
                   card_on_list, comments, fill_queue, pr_url, invocations,
                   review_calls, stop_seen, exit, polls, plan_result, executor>>

\* The merge phase; wt_ok is whether the merge worktree could be created
\* (the exception is caught and logged by orchestrate()).
Merge ==
    /\ pc = "merge"
    /\ \E wt_ok \in BOOLEAN,
          outcome \in [MergeCandidates(state.subtasks) ->
                          {"clean", "resolved", "unresolved"}] :
        LET st1 == [state EXCEPT !.phase = "merging"]
        IN IF ~wt_ok
           THEN state' = st1 /\ disk' = SaveState(st1) /\ repo' = repo
           ELSE /\ state' = [st1 EXCEPT !.subtasks =
                                MergeAll(st1.subtasks, outcome)]
                /\ disk' = SaveState(state')
                /\ repo' = [repo EXCEPT !.merges =
                               @ \o MergeAttempts(st1.subtasks, outcome)]
    /\ pc' = "pr"
    /\ UNCHANGED <<cycle, futures, stop_requested, paused, pause_comment_id,
                   card_on_list, comments, fill_queue, pr_url, invocations,
                   review_calls, stop_seen, exit, polls,
                   plan_result, executor>>

\* _create_pr: phase reviewing, saved; url is whether a PR URL came back.
CreatePr ==
    /\ pc = "pr"
    /\ state' = [state EXCEPT !.phase = "reviewing"]
    /\ disk' = SaveState(state')
    /\ \E url \in BOOLEAN : pr_url' = url
    /\ pc' = "complete"
    /\ UNCHANGED <<cycle, futures, stop_requested, paused, pause_comment_id,
                   card_on_list, comments, fill_queue, invocations,
                   review_calls, stop_seen, exit, polls,
                   plan_result, executor, repo>>

\* _complete and the pull-request comment: phase complete, saved, final
\* status comment, card moved back to its original list.
Complete ==
    /\ pc = "complete"
    /\ LET st1 == [state EXCEPT !.phase = "complete"]
           post == PostStatus(st1, comments)
       IN IF post.raised
          THEN /\ Return(st1, SaveState(st1), comments, "raised")
               /\ UNCHANGED card_on_list
          ELSE /\ Return(post.state, SaveState(st1),
                         IF pr_url THEN AddComment(post.comments, "pr")
                         ELSE post.comments,
                         "complete")
               /\ \E moved \in BOOLEAN :
                     card_on_list' = IF moved THEN FALSE ELSE card_on_list
    /\ UNCHANGED <<cycle, futures, stop_requested, paused, pause_comment_id,
                   fill_queue, pr_url, invocations, review_calls, stop_seen, polls,
                   plan_result, executor, repo>>

Next ==
    \/ Invoke
    \/ Decompose
    \/ HandleSignal
    \/ MoveCard
    \/ StopCheck
    \/ Harvest
    \/ Replan
    \/ TerminalCheck
    \/ HumanComment
    \/ Gate
    \/ Fill
    \/ PeriodicStatus
    \/ Merge
    \/ CreatePr
    \/ Complete

Spec == Init /\ [][Next]_vars

(***************************************************************************)
(* Properties.                                                             *)
(***************************************************************************)
\* A step of the slot-filling loop that starts a worker (_start_agent).
WorkerStarted ==
    /\ pc = "fill"
    /\ state'.total_agents_spawned = state.total_agents_spawned + 1

\* C1: in every reachable state of an orchestrate() invocation the number of
\* subtasks in status running is at most max_agents.
C1_RunningAtMostMaxAgents ==
    RunningCount(state.subtasks) <= MaxAgents

\* The slot-filling loop has taken every slot and a ready subtask waits.
C1_AllSlotsTaken ==
    /\ pc = "status"
    /\ RunningCount(state.subtasks) = MaxAgents
    /\ ReadySubtasks(state.subtasks) # << >>

\* A human comment is on the card that is newer than a limit notice.
ContinueAfterNotice(cmts) ==
    \E k \in 1..Len(cmts), j \in 1..Len(cmts) :
        k < j /\ cmts[k].kind = "human" /\ cmts[j].kind = "notice"

\* C2: no worker is started in a state where total_agents_spawned is at
\* least ORCH_AGENT_LIMIT unless a human continue comment has been posted
\* after the limit notice; this holds for every worker started in a
\* slot-filling step, not only the first one.
C2_NoStartAtLimitWithoutContinue ==
    [][WorkerStarted =>
          \/ state.total_agents_spawned < AgentLimit
          \/ ContinueAfterNotice(comments)]_vars

\* More workers than the limit were started and no notice was ever posted.
C2_StartedPastLimitUnnoticed ==
    /\ state.total_agents_spawned > AgentLimit
    /\ \A k \in 1..Len(comments) : comments[k].kind \notin {"notice", "human"}

\* Every title in the dependency list of subtask i is the title of a
\* complete subtask.
DependenciesComplete(subtasks, i) ==
    subtasks[i].dependencies \subseteq CompletedTitles(subtasks)

\* C3: a subtask moves from pending to running only in a state where every
\* title in its dependency list is the title of a complete subtask.
C3_StartOnlyWhenDependenciesComplete ==
    [][\A i \in Indices(state.subtasks) \cap Indices(state'.subtasks) :
          (state.subtasks[i].status = "pending"
              /\ state'.subtasks[i].status = "running")
          => DependenciesComplete(state.subtasks, i)]_vars

\* A subtask is running although a dependency of it is not complete.
C3_RunningBeforeDependency ==
    \E i \in Indices(state.subtasks) :
        /\ state.subtasks[i].status = "running"
        /\ ~DependenciesComplete(state.subtasks, i)

\* C4: once the stop check at the top of a cycle has returned true, the
\* invocation has left the scheduling loop (so no worker is started
\* afterwards) and the phase when orchestrate() returns is stopped.
C4_StopEndsStopped ==
    stop_seen => (pc = "returned" /\ state.phase = "stopped")

\* The stop check returned true and the invocation ended in phase failed.
C4_StopEndedFailed ==
    stop_seen /\ pc = "returned" /\ state.phase = "failed"

\* C5: the review worker is invoked at most once per Run.
C5_ReviewAtMostOnce ==
    review_calls <= 1

\* A second review worker ran after a fix subtask completed.
C5_ReviewedAgainAfterFix ==
    /\ review_calls = 2
    /\ \E i \in Indices(state.subtasks) :
          state.subtasks[i].id = "fix-x" /\ state.subtasks[i].status = "complete"

\* Subtask i depends on title t directly or through a chain of at most n
\* dependencies.
RECURSIVE DependsOn(_, _, _, _)
DependsOn(subtasks, i, t, n) ==
    /\ n > 0
    /\ \/ t \in subtasks[i].dependencies
       \/ \E j \in Indices(subtasks) :
             /\ subtasks[j].title \in subtasks[i].dependencies
             /\ DependsOn(subtasks, j, t, n - 1)

\* A re-plan step that ends with "cancelling dependents" for subtask i: the
\* subtask gets the '_replanned' key, stays failed, and nothing is appended.
CancelDecided(i) ==
    /\ pc = "replan" /\ pc' = "replan"
    /\ ~state.subtasks[i].replanned
    /\ state'.subtasks[i].replanned
    /\ state'.subtasks[i].status = "failed"
    /\ Len(state'.subtasks) = Len(state.subtasks)

\* C6: when the re-planner's outcome for a failed subtask is cancel, every
\* pending subtask that depends on it directly or through a chain of
\* dependencies is blocked when the re-plan step finishes.
C6_CancelBlocksTransitiveDependents ==
    [][\A i \in Indices(state.subtasks) :
          CancelDecided(i) =>
             \A j \in Indices(state.subtasks) :
                (/\ state.subtasks[j].status = "pending"
                 /\ DependsOn(state.subtasks, j, state.subtasks[i].title,
                              Len(state.subtasks)))
                => state'.subtasks[j].status = "blocked"]_vars

\* After a cancel for A in the chain A <- B <- C: B is blocked, C is pending.
C6_IndirectDependentLeftPending ==
    /\ pc = "replan"
    /\ Len(state.subtasks) = 3
    /\ state.subtasks[1].status = "failed" /\ state.subtasks[1].replanned
    /\ state.subtasks[2].status = "blocked"
    /\ state.subtasks[3].status = "pending"
    /\ state.subtasks[1].title \notin state.subtasks[3].dependencies
    /\ DependsOn(state.subtasks, 3, state.subtasks[1].title, 3)

\* The plan names a dependency title that no subtask carries.
HasDanglingTitle(subtasks) ==
    \E i \in Indices(subtasks) : \E d \in subtasks[i].dependencies :
        \A j \in Indices(subtasks) : subtasks[j].title # d

\* The dependency relation of the plan has a cycle.
HasCycle(subtasks) ==
    \E i \in Indices(subtasks) :
        DependsOn(subtasks, i, subtasks[i].title, Len(subtasks))

\* The positions of orchestrate() inside and after the scheduling loop.
AfterPlanning == {"loop_top", "harvest", "replan", "terminal", "gate", "fill",
                  "status", "merge", "pr", "complete"}

\* C7: a plan with a dependency title that names no subtask, or with a
\* dependency cycle, is rejected: the Run does not enter the scheduling loop
\* with it and its phase becomes failed.
C7_DefectivePlanRejected ==
    (plan_result = "parsed" /\ invocations = 1
        /\ (HasDanglingTitle(state.subtasks) \/ HasCycle(state.subtasks)))
    => (pc \notin AfterPlanning /\ state.phase = "failed")

\* A plan with a cycle or a dangling title is being scheduled.
C7_DefectivePlanScheduled ==
    /\ plan_result = "parsed" /\ invocations = 1
    /\ HasDanglingTitle(state.subtasks) \/ HasCycle(state.subtasks)
    /\ pc = "fill" /\ state.phase = "executing"

\* C8: when planning yields zero subtasks, or output that cannot be parsed
\* after the repair call, the persisted phase becomes failed, and the Run
\* never proceeds to merging or complete, also not in a later invocation.
C8_NoPlanFailsRun ==
    plan_result \in {"empty", "unparsable"} =>
        /\ disk.doc.phase \notin {"merging", "reviewing", "complete"}
        /\ pc = "returned" => disk.doc.phase = "failed"

\* A Run whose plan was empty or unparsable is persisted as complete.
C8_NoPlanRunComplete ==
    /\ plan_result \in {"empty", "unparsable"}
    /\ disk.exists /\ disk.doc.phase = "complete"

\* The phase changes the claim allows in one step.
PhaseStep(p, q) ==
    \/ p = q
    \/ <<p, q>> \in {<<"planning", "executing">>, <<"executing", "merging">>,
                     <<"merging", "reviewing">>, <<"reviewing", "complete">>,
                     <<"reviewing", "executing">>}
    \/ q \in {"stopped", "failed"}

\* A later orchestrate() invocation loads the persisted state.
Resumes == pc = "returned" /\ pc' = "loop_top"

C10_StoppedFailedAbsorbing ==
    [][(disk.exists /\ disk.doc.phase \in {"stopped", "failed"})
          => disk'.doc.phase = disk.doc.phase]_vars

\* A Run whose previous invocation ended failed is persisted as executing.
C10_FailedRunExecuting ==
    /\ exit = "failed"
    /\ pc = "loop_top"
    /\ disk.doc.phase = "executing"

\* Subtask j is an ancestor of subtask i in the dependency graph.
IsAncestor(subtasks, j, i) ==
    DependsOn(subtasks, i, subtasks[j].title, Len(subtasks))

\* C11: in every reachable state every blocked subtask has at least one
\* ancestor in the dependency graph that is failed, cancelled or blocked.
C11_BlockedHasFailedAncestor ==
    \A i \in Indices(state.subtasks) :
        state.subtasks[i].status = "blocked" =>
            \E j \in Indices(state.subtasks) :
                /\ IsAncestor(state.subtasks, j, i)
                /\ state.subtasks[j].status \in {"failed", "cancelled", "blocked"}

\* A subtask is blocked while the subtask it depends on is complete.
C11_BlockedUnderCompleteDependency ==
    \E i, j \in Indices(state.subtasks) :
        /\ state.subtasks[i].status = "blocked"
        /\ state.subtasks[i].dependencies = {state.subtasks[j].title}
        /\ state.subtasks[j].status = "complete"

\* The subtasks that move from pending to running in a step.
StartedSubtasks ==
    {i \in Indices(state.subtasks) \cap Indices(state'.subtasks) :
        /\ state.subtasks[i].status = "pending"
        /\ state'.subtasks[i].status = "running"}

\* C12: total_agents_spawned never decreases and counts the pending to
\* running transitions of the Run: in every step it grows by the number of
\* subtasks that move from pending to running in that step.
C12_SpawnCounterCountsStarts ==
    [][state'.total_agents_spawned =
          state.total_agents_spawned + Cardinality(StartedSubtasks)]_vars

\* Two workers were started for a subtask that is still pending and has
\* never had a branch.
C12_StartedTwiceStillPending ==
    /\ state.total_agents_spawned >= 2
    /\ Len(state.subtasks) = 3
    /\ state.subtasks[2].id = state.subtasks[1].id
    /\ state.subtasks[2].status = "pending"
    /\ state.subtasks[2].agent_branch = NoBranch

\* C13: the dependency relation over the subtasks (by title) is acyclic in
\* every reachable state.
C13_DependenciesAcyclic ==
    ~HasCycle(state.subtasks)

\* Subtasks that depend on each other are held pending by the scheduling
\* loop.
C13_CycleHeldPending ==
    /\ pc = "status"
    /\ state.phase = "executing"
    /\ \E i, j \in Indices(state.subtasks) :
          /\ i # j
          /\ state.subtasks[j].title \in state.subtasks[i].dependencies
          /\ state.subtasks[i].title \in state.subtasks[j].dependencies
          /\ state.subtasks[i].status = "pending"
          /\ state.subtasks[j].status = "pending"

\* The exception handler of the scheduling loop has run: it is the only
\* code that sets phase failed, and orchestrate() ends right after it.
LoopFailed == pc = "returned" /\ state.phase = "failed"

\* C14: an exception raised inside the scheduling loop body results in
\* phase failed being persisted, one final status comment being posted,
\* and orchestrate() returning without entering the merge phase.
C14_LoopExceptionHandled ==
    /\ state.phase = "failed" => pc = "returned"
    /\ LoopFailed =>
          /\ disk.doc.phase = "failed"
          /\ exit = "failed"
          /\ state.status_post_count = disk.doc.status_post_count + 1
          /\ comments # << >> /\ Head(comments).kind = "status"

\* The handler ran for an exception of a loop step other than the stop
\* handling, posted nothing, and its own exception left orchestrate().
C14_HandlerRaisedAgain ==
    /\ LoopFailed
    /\ ~stop_seen
    /\ exit = "raised"
    /\ state.status_post_count = disk.doc.status_post_count

\* C15: when orchestrate() returns after a signal stop or an external
\* stop, no worker process submitted by the invocation is still alive,
\* whether or not it finished within the bounded wait of _handle_stop.
C15_NoWorkerAliveAfterStop ==
    (pc = "returned" /\ stop_seen) => AliveWorkers = 0

\* A stop returned while a worker call had not finished within the wait:
\* its future is still unharvested and the pool has been shut down.
C15_StopOutlastedWait ==
    /\ pc = "returned" /\ stop_seen
    /\ futures # << >>
    /\ executor = "shut"

\* A later invocation is running for a Run whose previous invocation ended
\* by a stop.
ResumedAfterStop == exit = "stopped" /\ pc \in AfterPlanning

\* The result of the worker of subtask i can still be harvested.
HasFuture(i) ==
    \E k \in 1..Len(futures) : futures[k] = state.subtasks[i].id

\* C16: a Run stopped and later resumed ends in the final state of the
\* uninterrupted execution of the remaining work.  The uninterrupted
\* execution harvests the result of every worker it started, so no subtask
\* is running in its final state; the resumed invocation can only end in
\* that state if every subtask it finds running has a worker whose result
\* it can harvest.
C16_ResumedRunHarvestsRunningWork ==
    ResumedAfterStop =>
        \A i \in Indices(state.subtasks) :
            state.subtasks[i].status = "running" => HasFuture(i)

\* A resumed invocation has gone through a cycle with a subtask that is
\* running and has no worker.
C16_ResumedRunStuckRunning ==
    /\ ResumedAfterStop
    /\ pc = "status" /\ cycle >= 1
    /\ futures = << >>
    /\ \E i \in Indices(state.subtasks) : state.subtasks[i].status = "running"

(***************************************************************************)
(* Save and load over Run values: a Run is drawn from a bounded set, saved *)
(* and loaded again.                                                       *)
(***************************************************************************)
\* Subtask dicts in every status, with and without a branch, the merged
\* flag and the '_replanned' key.
SubtaskValues ==
    {[SubTask("a", "A", deps, 1) EXCEPT !.status = st, !.agent_branch = br,
                                        !.merged = mg, !.replanned = rp] :
        deps \in {{}, {"B"}}, st \in TaskStatus,
        br \in {NoBranch, BranchName("a")}, mg \in BOOLEAN, rp \in BOOLEAN}

RECURSIVE SubtaskLists(_)
SubtaskLists(n) ==
    IF n = 0 THEN {<< >>}
    ELSE SubtaskLists(n - 1) \cup
         {Append(l, v) : l \in {x \in SubtaskLists(n - 1) : Len(x) = n - 1},
                         v \in SubtaskValues}

RunValues ==
    {[phase |-> ph, subtasks |-> l, total_agents_spawned |-> Len(l),
      status_post_count |-> 0] :
        ph \in OrchestratorPhase, l \in SubtaskLists(MaxSavedSubtasks)}

InitSaveLoad ==
    /\ pc = "unsaved"
    /\ state \in RunValues
    /\ disk = [exists |-> FALSE, doc |-> NewRun, written |-> "complete"]
    /\ cycle = 0 /\ futures = << >> /\ stop_requested = FALSE
    /\ paused = FALSE /\ pause_comment_id = 0 /\ card_on_list = TRUE
    /\ comments = << >> /\ fill_queue = << >> /\ pr_url = FALSE
    /\ invocations = 0 /\ review_calls = 0 /\ stop_seen = FALSE
    /\ polls = 0 /\ exit = "none" /\ plan_result = "none"
    /\ executor = "none" /\ repo = EmptyRepo

\* _save_state(state)
SaveRun ==
    /\ pc = "unsaved"
    /\ disk' = SaveState(state)
    /\ pc' = "saved"
    /\ UNCHANGED <<cycle, state, futures, stop_requested, paused,
                   pause_comment_id, card_on_list, comments, fill_queue,
                   pr_url, invocations, review_calls, stop_seen, polls, exit,
                   plan_result, executor, repo>>

\* _save_state(state) in a process that ends between open(path, 'w'), which
\* truncates the document, and the end of json.dump: the file is left empty
\* or holding a prefix of the dump.
CrashInSave ==
    /\ pc \in {"unsaved", "saved"}
    /\ \E w \in {"empty", "partial"} :
          disk' = [exists |-> TRUE, doc |-> state, written |-> w]
    /\ pc' = "crashed"
    /\ UNCHANGED <<cycle, state, futures, stop_requested, paused,
                   pause_comment_id, card_on_list, comments, fill_queue,
                   pr_url, invocations, review_calls, stop_seen, polls, exit,
                   plan_result, executor, repo>>

\* _load_state(card_id) in a new process; json.load raises on a document
\* that is not the whole dump.
LoadRun ==
    /\ pc \in {"saved", "crashed"}
    /\ IF disk.written = "complete"
       THEN /\ state' = LoadState(JsonDump(disk.doc))
            /\ pc' = "loaded"
       ELSE /\ state' = state
            /\ pc' = "load_failed"
    /\ UNCHANGED <<cycle, disk, futures, stop_requested, paused,
                   pause_comment_id, card_on_list, comments, fill_queue,
                   pr_url, invocations, review_calls, stop_seen, polls, exit,
                   plan_result, executor, repo>>

NextSaveLoad == SaveRun \/ CrashInSave \/ LoadRun

SpecSaveLoad == InitSaveLoad /\ [][NextSaveLoad]_vars

\* C17: for every Run value, subtasks with the replanned flag included,
\* _save_state followed by _load_state returns a Run equal to the saved one
\* in every field.
C17_SaveLoadRoundTrip ==
    pc = "loaded" => state = disk.doc

\* A Run with a re-planned subtask that has a branch and a dependency has
\* been saved and loaded.
C17_ReplannedRunLoaded ==
    /\ pc = "loaded"
    /\ \E i \in Indices(state.subtasks) :
          /\ state.subtasks[i].replanned
          /\ state.subtasks[i].agent_branch # NoBranch
          /\ state.subtasks[i].dependencies # {}
\* C18: at any point of _save_state, a crash included, the document on disk
\* is a complete version, never empty or partly written, and a later
\* _load_state succeeds.
C18_SavedDocumentAlwaysComplete ==
    /\ disk.exists => disk.written = "complete"
    /\ pc # "load_failed"

\* A complete document was on disk, the next save ended between the
\* truncation and the end of the dump, and the load raised.
C18_LoadFailedAfterCrash ==
    /\ pc = "load_failed"
    /\ disk.exists /\ disk.written \in {"empty", "partial"}
\* The first cycle of a resumed invocation, up to its terminal check, over
\* a loaded Run all of whose subtasks are complete.
LoadedAllComplete ==
    /\ invocations >= 2
    /\ cycle <= 1
    /\ pc \in {"loop_top", "harvest", "replan", "terminal"}
    /\ state.subtasks # << >>
    /\ \A i \in Indices(state.subtasks) : state.subtasks[i].status = "complete"

\* C19: over a loaded Run whose subtasks are all complete the scheduling
\* loop starts no worker, changes no subtask and not total_agents_spawned,
\* adds no subtask, and its terminal check goes on to the merge (unless the
\* invocation ends there).
C19_AllCompleteRunIsNoOp ==
    [][LoadedAllComplete =>
          /\ state'.subtasks = state.subtasks
          /\ state'.total_agents_spawned = state.total_agents_spawned
          /\ futures' = << >>
          /\ (pc = "terminal" /\ pc' # "returned") => pc' = "merge"]_vars

\* The first cycle of a resumed invocation is back at the top of the loop
\* with a pending subtask next to the complete ones, below the agent limit
\* and unpaused: the slot-filling step was not reached, the subtask was
\* queued by the terminal check.
C19_FixQueuedOnCompleteRun ==
    /\ invocations >= 2 /\ cycle = 1 /\ pc = "loop_top"
    /\ ~paused /\ state.total_agents_spawned < AgentLimit
    /\ \E i \in Indices(state.subtasks) :
          /\ state.subtasks[i].id = "fix-x"
          /\ state.subtasks[i].status = "pending"
          /\ \A j \in Indices(state.subtasks) \ {i} :
                state.subtasks[j].status = "complete"
    /\ Len(state.subtasks) >= 2
\* C20: every comment the orchestrator posts on the card carries the bot
\* marker in its heading.
C20_EveryPostedCommentTagged ==
    \A k \in 1..Len(comments) :
        comments[k].kind # "human" => HasBotTag(comments[k].kind)

\* The plan comment or the pull-request comment is on the card.
C20_UntaggedCommentPosted ==
    /\ pc \in AfterPlanning \cup {"returned"}
    /\ \E k \in 1..Len(comments) : comments[k].kind \in {"plan", "pr"}
\* The limit-reached notices on the parent card.
LimitNotices == {k \in 1..Len(comments) : comments[k].kind = "notice"}

\* C21: within a Run the limit-reached comment is posted at most once; after
\* an accepted continue there is no further notice and no further pause.
C21_LimitNoticeAtMostOnce ==
    Cardinality(LimitNotices) <= 1

\* Within one invocation a second notice was posted after the human reply
\* to the first one, and the gate is paused again.
C21_SecondNoticeAfterContinue ==
    /\ invocations = 1
    /\ paused
    /\ \E k1, k2 \in LimitNotices, h \in 1..Len(comments) :
          /\ k1 < h /\ h < k2
          /\ comments[h].kind = "human"
\* C22: a paused gate resumes only on a human comment that is newer than
\* the limit notice on the card; a comment older than the notice never
\* causes a resume, however posting and looking up the notice ended.
C22_ResumeOnlyOnReplyAfterNotice ==
    [][(pc = "gate" /\ paused /\ ~paused') =>
          \E k \in 1..Len(comments) :
              /\ comments[k].kind = "human"
              /\ \A j \in 1..(k - 1) : comments[j].kind # "notice"
              /\ \E j \in (k + 1)..Len(comments) :
                    comments[j].kind = "notice"]_vars

\* The gate has let the slot-filling step run at the limit while the only
\* notice on the card is newer than every human comment.
C22_ResumedOnOlderComment ==
    /\ pc = "fill" /\ ~paused
    /\ state.total_agents_spawned >= AgentLimit
    /\ Cardinality(LimitNotices) = 1
    /\ \E h \in 1..Len(comments) : comments[h].kind = "human"
    /\ \A h \in 1..Len(comments), k \in LimitNotices :
          comments[h].kind = "human" => k < h
(***************************************************************************)
(* Workers: subtasks of a plan are started and their workers return with   *)
(* every outcome of run_agent_in_worktree.                                 *)
(***************************************************************************)
\* How the claude child ends: killed by the timeout, or an exit code; and
\* whether it left changes in the worktree.
WorkerOutcomes ==
    [timeout : BOOLEAN, exit : {0, 1}, changed : BOOLEAN]

\* run_agent_in_worktree: on a timeout nothing is committed; otherwise
\* 'git add -A' and 'git commit' run, and the commit exists when there were
\* changes; success is returncode == 0.
RunAgentInWorktree(o) ==
    [success |-> ~o.timeout /\ o.exit = 0,
     committed |-> ~o.timeout /\ o.changed]

WorkerPlans == {PlanSingle, PlanFan, PlanChain, PlanWide}

InitWorker ==
    /\ pc = "supervising"
    /\ \E plan \in WorkerPlans :
          state = [NewRun EXCEPT !.phase = "executing", !.subtasks = plan]
    /\ disk = [exists |-> FALSE, doc |-> NewRun, written |-> "complete"]
    /\ cycle = 0 /\ futures = << >> /\ stop_requested = FALSE
    /\ paused = FALSE /\ pause_comment_id = 0 /\ card_on_list = TRUE
    /\ comments = << >> /\ fill_queue = << >> /\ pr_url = FALSE
    /\ invocations = 1 /\ review_calls = 0 /\ stop_seen = FALSE
    /\ polls = 0 /\ exit = "none" /\ plan_result = "parsed"
    /\ executor = "open" /\ repo = EmptyRepo

\* _start_agent for one of the subtasks the slot-filling step would start.
StartWorker ==
    /\ pc = "supervising"
    /\ \E k \in 1..Len(SlotsToFill(state.subtasks)) :
          LET s == state.subtasks[SlotsToFill(state.subtasks)[k]]
          IN /\ state' = StartAgent(state, s)
             /\ futures' = Append(futures, s.id)
             /\ repo' = CreateBranch(repo, BranchName(s.id))
    /\ disk' = SaveState(state')
    /\ UNCHANGED <<pc, cycle, stop_requested, paused, pause_comment_id,
                   card_on_list, comments, fill_queue, pr_url, invocations,
                   review_calls, stop_seen, polls, exit, plan_result,
                   executor>>

\* One worker returns with outcome o and _harvest_agents harvests it.
WorkerReturns ==
    /\ pc = "supervising"
    /\ \E k \in 1..Len(futures), o \in WorkerOutcomes :
          LET result == RunAgentInWorktree(o)
              res == [j \in 1..Len(futures) |->
                         IF j # k THEN "none"
                         ELSE IF result.success THEN "ok" ELSE "fail"]
          IN /\ state' = [state EXCEPT !.subtasks =
                              HarvestAgents(state.subtasks, futures, res)]
             /\ futures' = RemainingFutures(futures, res)
             /\ repo' = CommitWork(repo, IF result.committed
                                         THEN {BranchName(futures[k])}
                                         ELSE {})
    /\ disk' = SaveState(state')
    /\ UNCHANGED <<pc, cycle, stop_requested, paused, pause_comment_id,
                   card_on_list, comments, fill_queue, pr_url, invocations,
                   review_calls, stop_seen, polls, exit, plan_result,
                   executor>>

NextWorker == StartWorker \/ WorkerReturns

SpecWorker == InitWorker /\ [][NextWorker]_vars

\* C23: for every complete subtask, agent_branch names a branch of the
\* repository that carries a commit the parent branch did not have.
C23_CompleteBranchHasCommit ==
    \A i \in Indices(state.subtasks) :
        state.subtasks[i].status = "complete" =>
            /\ state.subtasks[i].agent_branch \in repo.branches
            /\ state.subtasks[i].agent_branch \in repo.ahead

\* A subtask is complete on an existing branch that holds no commit of its
\* worker.
C23_CompleteOnUnchangedBranch ==
    \E i \in Indices(state.subtasks) :
        /\ state.subtasks[i].status = "complete"
        /\ state.subtasks[i].agent_branch \in repo.branches
        /\ state.subtasks[i].agent_branch \notin repo.ahead
\* The merges attempted by the step.
NewMerges == SubSeq(repo'.merges, Len(repo.merges) + 1, Len(repo'.merges))

\* C24: the merge phase attempts merges only for subtasks that are complete
\* and not yet merged, in ascending priority, ties in insertion order.
C24_MergeInPriorityOrder ==
    [][(pc = "merge" /\ pc' = "pr") =>
          /\ \A k \in 1..Len(NewMerges) :
                LET i == NewMerges[k].index
                IN /\ state.subtasks[i].status = "complete"
                   /\ ~state.subtasks[i].merged
                   /\ state.subtasks[i].agent_branch = NewMerges[k].branch
          /\ \A k, m \in 1..Len(NewMerges) :
                k < m =>
                  LET i == NewMerges[k].index
                      j == NewMerges[m].index
                  IN \/ state.subtasks[i].priority < state.subtasks[j].priority
                     \/ /\ state.subtasks[i].priority = state.subtasks[j].priority
                        /\ i < j]_vars

\* Two branches were merged in the order of their priorities against the
\* insertion order of their subtasks.
C24_MergedAgainstInsertionOrder ==
    /\ pc = "pr"
    /\ \E k, m \in 1..Len(repo.merges) :
          /\ k < m
          /\ repo.merges[k].index > repo.merges[m].index
          /\ repo.merges[k].merged /\ repo.merges[m].merged
          /\ state.subtasks[repo.merges[k].index].priority
                < state.subtasks[repo.merges[m].index].priority
\* Subtask i was retried and has failed again: it is failed with the
\* '_replanned' key, the ids are distinct, and it is the only subtask that
\* was ever started while at least two workers were started.
RetriedAndFailedAgain(i) ==
    /\ state.subtasks[i].status = "failed"
    /\ state.subtasks[i].replanned
    /\ state.total_agents_spawned >= 2
    /\ \A j \in Indices(state.subtasks) \ {i} :
          /\ state.subtasks[j].agent_branch = NoBranch
          /\ state.subtasks[j].id # state.subtasks[i].id

\* C25: once the re-plan step of the cycle is over, no subtask is pending
\* behind a subtask that was retried and failed a second time.
C25_SecondFailureBlocksDependents ==
    \A i \in Indices(state.subtasks) :
        (pc \in {"terminal", "gate", "fill", "status"}
            /\ RetriedAndFailedAgain(i)) =>
          \A j \in Indices(state.subtasks) :
              state.subtasks[i].title \in state.subtasks[j].dependencies
                  => state.subtasks[j].status # "pending"

\* The retried subtask has failed again, the re-plan step has passed, and
\* a dependent is still pending.
C25_PendingBehindSecondFailure ==
    /\ pc = "gate"
    /\ \E i, j \in Indices(state.subtasks) :
          /\ RetriedAndFailedAgain(i)
          /\ state.subtasks[i].title \in state.subtasks[j].dependencies
          /\ state.subtasks[j].status = "pending"
\* The re-planner is called for subtask i in this step: the step sets the
\* '_replanned' key of the failed subtask, as the loop does right before
\* the call.
ReplannerInvoked(i) ==
    /\ pc = "replan"
    /\ state.subtasks[i].status = "failed"
    /\ ~state.subtasks[i].replanned
    /\ state'.subtasks[i].replanned

\* C26: the re-planner is invoked at most once for each subtask over the
\* whole Run: a subtask that carries the replanned flag keeps it in every
\* step, a retry and a resume from the saved document included, and the
\* re-plan step changes no subtask for which it does not invoke the
\* re-planner.
C26_ReplannedAtMostOnce ==
    [][/\ \A i \in Indices(state.subtasks) :
             state.subtasks[i].replanned =>
                 /\ i \in Indices(state'.subtasks)
                 /\ state'.subtasks[i].replanned
       /\ (pc = "replan" /\ (\A i \in Indices(state.subtasks) :
                                 ~ReplannerInvoked(i)))
             => state'.subtasks = state.subtasks]_vars

\* A resumed invocation has loaded a retried subtask with its flag, before
\* its first re-plan step.
C26_FlagLoadedOnResume ==
    /\ invocations >= 2 /\ cycle = 1 /\ pc = "harvest"
    /\ \E i \in Indices(state.subtasks) :
          /\ state.subtasks[i].replanned
          /\ state.subtasks[i].status \in {"pending", "running"}
\* The step publishes a status comment: the periodic one of every fifth
\* cycle, or the final one of _complete.
StatusPublication ==
    \/ pc = "status" /\ cycle % StatusEvery = 0
    \/ pc = "complete"

\* C27: after a subtask has failed and been re-planned, the periodic and
\* the final status publication complete normally, and the Run's phase
\* does not become failed by them.
C27_StatusPublishedAfterReplan ==
    [][(StatusPublication
          /\ \E i \in Indices(state.subtasks) : state.subtasks[i].replanned)
        => /\ state'.status_post_count = state.status_post_count + 1
           /\ state'.phase # "failed"]_vars

\* The Run is complete with a re-planned failure among its subtasks, and
\* the final status publication raised out of orchestrate().
C27_FinalStatusRaised ==
    /\ pc = "returned" /\ exit = "raised"
    /\ state.phase = "complete"
    /\ state.status_post_count = 0
    /\ \E i \in Indices(state.subtasks) :
          state.subtasks[i].replanned /\ state.subtasks[i].status = "failed"
\* The plan is one the liveness claim speaks of: every dependency title is
\* declared and the dependencies are acyclic.
WellFormedPlan(subtasks) ==
    /\ subtasks # << >>
    /\ ~HasDanglingTitle(subtasks)
    /\ ~HasCycle(subtasks)

\* Nothing the scheduling loop waits for can still happen: no worker is in
\* flight, no subtask is running, no failure awaits the re-planner and no
\* subtask is ready, while some subtask is not terminal.
LoopStuck ==
    /\ pc = "gate"
    /\ futures = << >>
    /\ RunningCount(state.subtasks) = 0
    /\ NeedsReplan(state.subtasks) = {}
    /\ ReadySubtasks(state.subtasks) = << >>
    /\ ~AllTerminal(state.subtasks)

\* C28: for a plan with declared, acyclic dependencies and no stop, every
\* subtask eventually reaches a terminal status and the loop exits to the
\* merge.  The loop can only do so if it never reaches a state in which
\* nothing it waits for can still happen; this holds in every such state,
\* whatever the fairness of the workers and of the human.
C28_LoopNeverStuck ==
    (WellFormedPlan(state.subtasks) /\ ~stop_seen) => ~LoopStuck

\* The first invocation, never stopped, holds a subtask pending behind a
\* blocked or failed one, with distinct ids and nothing left to wait for.
C28_PendingForEver ==
    /\ invocations = 1 /\ ~stop_seen /\ card_on_list /\ ~stop_requested
    /\ WellFormedPlan(state.subtasks)
    /\ \A i, j \in Indices(state.subtasks) :
          state.subtasks[i].id = state.subtasks[j].id => i = j
    /\ LoopStuck
    /\ \E i \in Indices(state.subtasks) : state.subtasks[i].status = "pending"
\* C29: at the top of every cycle, the first cycle of a resumed invocation
\* included, every running subtask has an un-harvested worker future.
C29_RunningHasFutureAtLoopTop ==
    pc = "loop_top" =>
        \A i \in Indices(state.subtasks) :
            state.subtasks[i].status = "running" => HasFuture(i)

\* A resumed invocation is at the top of its first cycle with a subtask
\* loaded as running and no future in the new process.
C29_LoadedRunningWithoutFuture ==
    /\ pc = "loop_top" /\ cycle = 0 /\ invocations >= 2
    /\ futures = << >>
    /\ \E i \in Indices(state.subtasks) :
          /\ state.subtasks[i].status = "running"
          /\ disk.doc.subtasks[i].status = "running"

\* C30: when orchestrate() returns after a stop, no subtask is running in
\* the persisted state: every worker in flight at the stop was awaited and
\* harvested before the final save.
C30_NoRunningPersistedAfterStop ==
    (pc = "returned" /\ stop_seen) =>
        \A i \in Indices(disk.doc.subtasks) :
            disk.doc.subtasks[i].status # "running"

\* The stop returned in phase stopped, a worker had not finished when the
\* bounded wait ended, and its subtask is saved as running.
C30_StoppedWithRunningSaved ==
    /\ pc = "returned" /\ stop_seen /\ exit = "stopped"
    /\ futures # << >>
    /\ \E i \in Indices(disk.doc.subtasks) :
          /\ disk.doc.subtasks[i].status = "running"
          /\ HasFuture(i)
\* C31: whatever the re-plan worker returns (a failure, no JSON, JSON that
\* does not parse, an unknown action, a bridge whose new_tasks lack a title
\* or description), the step in which the re-planner is invoked leaves the
\* Run in the loop: its phase does not become failed.
C31_ReplanNeverFailsRun ==
    [][\A i \in Indices(state.subtasks) :
          ReplannerInvoked(i) =>
              /\ state'.phase # "failed"
              /\ pc' = "replan"]_vars

\* The Run is failed after one worker start: the failed subtask carries the
\* '_replanned' key and a direct dependent is still pending, which no
\* decision of the re-planner leaves behind.
C31_BadBridgeFailedRun ==
    /\ pc = "returned" /\ state.phase = "failed" /\ ~stop_seen
    /\ state.total_agents_spawned = 1
    /\ \A i, j \in Indices(state.subtasks) :
          state.subtasks[i].id = state.subtasks[j].id => i = j
    /\ \E i, j \in Indices(state.subtasks) :
          /\ state.subtasks[i].status = "failed"
          /\ state.subtasks[i].replanned
          /\ state.subtasks[i].title \in state.subtasks[j].dependencies
          /\ state.subtasks[j].status = "pending"
\* No two subtasks of the list share an id.
UniqueIds(subtasks) ==
    \A i, j \in Indices(subtasks) :
        subtasks[i].id = subtasks[j].id => i = j

\* C32: subtask ids are unique within a Run in every reachable state.
C32_SubtaskIdsUnique ==
    UniqueIds(state.subtasks)

\* The scheduling loop is entered for the first time with a plan in which
\* two subtasks share an id.
C32_LoopEnteredWithSharedId ==
    /\ pc = "loop_top" /\ cycle = 0 /\ invocations = 1
    /\ state.phase = "executing"
    /\ ~UniqueIds(state.subtasks)

\* wt_path of create_worktree: "orch_<label>_<branch with / replaced>",
\* where _start_agent passes the raw subtask id as the label.
WorktreePath(st_id) == <<"orch_", st_id, BranchName(st_id)>>

\* C33: two workers in flight at the same time are bound to different
\* worktree paths and different branches, and two subtasks that are running
\* at the same time carry different branch names.
C33_RunningWorkersDisjoint ==
    /\ \A k, m \in 1..Len(futures) :
          k # m => /\ WorktreePath(futures[k]) # WorktreePath(futures[m])
                   /\ BranchName(futures[k]) # BranchName(futures[m])
    /\ \A i, j \in Indices(state.subtasks) :
          (/\ i # j
           /\ state.subtasks[i].status = "running"
           /\ state.subtasks[j].status = "running")
          => state.subtasks[i].agent_branch # state.subtasks[j].agent_branch

\* Two workers are in flight in the same worktree on the same branch while
\* the thread pool is open.
C33_TwoWorkersOneWorktree ==
    /\ executor = "open"
    /\ Len(futures) = 2
    /\ WorktreePath(futures[1]) = WorktreePath(futures[2])
    /\ BranchName(futures[1]) = BranchName(futures[2])

\* C34: in every step each subtask keeps its status or makes one of the
\* allowed changes (so complete, blocked and cancelled are never left), and
\* no subtask of the Run or of the persisted document has status ready.
C34_OnlyLegalTransitions ==
    [][/\ Len(state'.subtasks) >= Len(state.subtasks)
          => \A i \in Indices(state.subtasks) :
                \/ state'.subtasks[i].status = state.subtasks[i].status
                \/ <<state.subtasks[i].status, state'.subtasks[i].status>>
                      \in {<<"pending", "running">>,
                           <<"running", "complete">>,
                           <<"running", "failed">>,
                           <<"failed", "pending">>,
                           <<"pending", "blocked">>}
       /\ \A i \in Indices(state'.subtasks) :
             state'.subtasks[i].status # "ready"
       /\ disk'.exists
          => \A i \in Indices(disk'.doc.subtasks) :
                disk'.doc.subtasks[i].status # "ready"]_vars

\* The first subtask is running for the second time without ever having
\* been re-planned: its first worker was harvested as complete, and the
\* start of the subtask that shares its id put it back to running.
C34_CompleteWentBackToRunning ==
    /\ invocations = 1
    /\ Len(state.subtasks) = 3
    /\ state.subtasks[1].id = state.subtasks[2].id
    /\ state.subtasks[1].status = "running"
    /\ ~state.subtasks[1].replanned
    /\ state.subtasks[2].status = "pending"
    /\ state.subtasks[3].agent_branch = NoBranch
    /\ state.total_agents_spawned = 2
    /\ Len(futures) = 1

\* C35: the subtasks selected by a slot-filling step are the first
\* (max_agents - running) ready subtasks by ascending priority, ties in
\* insertion order: all selected are ready, as many as the cap allows, none
\* is preferred to an unselected ready subtask that has a smaller priority
\* number or the same number and an earlier position, and each pass of the
\* loop submits a worker for the next selected subtask.
C35_FillTakesFirstReadyByPriority ==
    [][/\ (pc = "gate" /\ pc' = "fill")
          => LET subtasks == state.subtasks
                 ready == {i \in Indices(subtasks) :
                              IsReady(subtasks, subtasks[i])}
                 slots == MaxAgents - RunningCount(subtasks)
                 chosen == {fill_queue'[k] : k \in 1..Len(fill_queue')}
                 Before(i, j) ==
                     \/ subtasks[i].priority < subtasks[j].priority
                     \/ /\ subtasks[i].priority = subtasks[j].priority
                        /\ i < j
             IN /\ chosen \subseteq ready
                /\ Cardinality(chosen) = Len(fill_queue')
                /\ Len(fill_queue') = Min({slots, Cardinality(ready)})
                /\ \A i \in chosen : \A j \in ready \ chosen : Before(i, j)
                /\ \A k, m \in 1..Len(fill_queue') :
                      k < m => Before(fill_queue'[k], fill_queue'[m])
       /\ (pc = "fill" /\ pc' = "fill")
          => /\ fill_queue # << >>
             /\ fill_queue' = Tail(fill_queue)
             /\ futures' = Append(futures,
                                  state.subtasks[Head(fill_queue)].id)]_vars

\* A slot-filling step has ended with the two ready subtasks of priority 1
\* running and the ready subtask of priority 2, first in the list, left
\* pending.
C35_LowerPriorityLeftPending ==
    /\ pc = "status"
    /\ Len(state.subtasks) = 3
    /\ Len(futures) = 2
    /\ state.subtasks[1].status = "pending"
    /\ state.subtasks[1].dependencies = {}
    /\ state.subtasks[2].status = "running"
    /\ state.subtasks[3].status = "running"
    /\ state.subtasks[1].priority > state.subtasks[2].priority
    /\ state.subtasks[2].priority = state.subtasks[3].priority

C37_MergedImpliesComplete ==
    \A i \in Indices(state.subtasks) :
        state.subtasks[i].merged => state.subtasks[i].status = "complete"

\* In a resumed Run a subtask that was merged by the earlier invocation is
\* running again, beside a pending fix subtask with the same id.
C37_MergedSubtaskRunning ==
    /\ invocations = 2
    /\ \E i, j \in Indices(state.subtasks) :
          /\ i < j
          /\ state.subtasks[i].merged
          /\ state.subtasks[i].status = "running"
          /\ state.subtasks[j].id = state.subtasks[i].id
          /\ state.subtasks[j].status = "pending"

\* C38: the Run leaves the merge phase for the pull request and phase
\* complete only when the merge phase ran to its end, every complete and
\* unmerged branch having been attempted; an error in the merge phase keeps
\* the Run from the pull request.
C38_CompleteOnlyAfterFullMerge ==
    [][(pc = "merge" /\ pc' = "pr")
          => \A c \in MergeCandidates(state.subtasks) :
                \E k \in 1..Len(NewMerges) : NewMerges[k].index = c]_vars

\* The Run has returned with phase complete and a pull request while the
\* branch of a complete subtask was never attempted: the merge phase raised
\* before its first merge.
C38_CompleteWithoutMerge ==
    /\ pc = "returned"
    /\ state.phase = "complete"
    /\ disk.doc.phase = "complete"
    /\ pr_url
    /\ repo.merges = << >>
    /\ \E i \in Indices(state.subtasks) :
          /\ state.subtasks[i].status = "complete"
          /\ state.subtasks[i].agent_branch # NoBranch
          /\ ~state.subtasks[i].merged

\* C39: whenever orchestrate() has returned, the state document on disk is
\* complete and equals the Run in memory in every field.
C39_PersistedEqualsMemoryAtReturn ==
    pc = "returned" =>
        /\ disk.exists
        /\ disk.written = "complete"
        /\ disk.doc = state

\* orchestrate() has returned after completion with a final status comment
\* counted in memory and not on disk; every other field agrees.
C39_FinalStatusCountNotSaved ==
    /\ pc = "returned"
    /\ exit = "complete"
    /\ state.phase = "complete"
    /\ disk.exists
    /\ disk.written = "complete"
    /\ state.status_post_count = disk.doc.status_post_count + 1
    /\ disk.doc = [state EXCEPT !.status_post_count = @ - 1]

(***************************************************************************)
(* Watch mode: watch_for_orchestration_cards builds one Orchestrator and   *)
(* calls orchestrate() on it for each new card of the list, one after      *)
(* another.  state, disk, comments, card_on_list and repo are those of the *)
(* card being processed; stop_requested, paused, pause_comment_id, futures *)
(* and executor are attributes of the instance.                            *)
(***************************************************************************)
\* The recorded notice id as seen from the next card: comment ids are
\* unique over the board, so an id recorded on an earlier card (shown as
\* -1) is the id of no comment of a later card.
StaleCommentId(id) == IF id = 0 THEN 0 ELSE -1

\* orchestrator.orchestrate(cid) for a card not seen before: no state file,
\* so a new Run is constructed and saved in phase planning.  orchestrate()
\* assigns none of _stop_requested, _paused, _pause_comment_id, _futures.
WatchNextCard ==
    /\ pc \in {"idle", "returned"}
    /\ invocations < MaxInvocations
    /\ invocations' = invocations + 1
    /\ cycle' = 0
    /\ fill_queue' = << >>
    /\ pr_url' = FALSE
    /\ stop_seen' = FALSE
    /\ review_calls' = 0
    /\ state' = NewRun
    /\ disk' = SaveState(NewRun)
    /\ card_on_list' = TRUE
    /\ comments' = << >>
    /\ repo' = EmptyRepo
    /\ pause_comment_id' = StaleCommentId(pause_comment_id)
    /\ pc' = "planning"
    /\ UNCHANGED <<futures, stop_requested, paused, executor, polls, exit,
                   plan_result>>

NextWatch ==
    \/ WatchNextCard
    \/ Decompose
    \/ HandleSignal
    \/ MoveCard
    \/ StopCheck
    \/ Harvest
    \/ Replan
    \/ TerminalCheck
    \/ HumanComment
    \/ Gate
    \/ Fill
    \/ PeriodicStatus
    \/ Merge
    \/ CreatePr
    \/ Complete

SpecWatch == Init /\ [][NextWatch]_vars

\* C40: in watch mode every Run starts with no stop requested, not paused,
\* no recorded limit-notice id and no pending worker futures.
C40_RunStartsWithCleanInstance ==
    [][invocations' = invocations + 1
          => /\ ~stop_requested'
             /\ ~paused'
             /\ pause_comment_id' = 0
             /\ futures' = << >>]_vars

\* The Run of the second card is about to plan, its card has no comment
\* yet, and the instance is paused on the notice of the first card.
C40_SecondCardStartsPaused ==
    /\ invocations = 2
    /\ pc = "planning"
    /\ comments = << >>
    /\ paused
    /\ pause_comment_id # 0
====
